---- MODULE Spec2Model ----
(***************************************************************************)
(* Bluelytics: the post retrieval pipeline of bluesky_core.py.             *)
(*   get_my_posts               cursor-paginated, date-bounded feed fetch  *)
(*   prepare_post_data_for_csv  per-post normalisation to CSV rows         *)
(* Instants are small integers; a createdAt string is a tuple: <<>> is a   *)
(* string isoparse rejects, <<w, o>> is wall clock w at UTC offset o.      *)
(***************************************************************************)
EXTENDS Integers, Sequences, FiniteSets, TLC

\* ---------------------------------------------------------------- bounds
MaxT == 2          \* wall clocks and instants range over 0..MaxT
MaxLimit == 2      \* limits range over 1..MaxLimit
MaxItems == 2      \* feed items served per fetch, over all responses
MaxPages == 3      \* feed responses per fetch
MaxPosts == 2      \* posts handed to prepare_post_data_for_csv
TicksPerDay == 2   \* instants per calendar day

\* ------------------------------------------------------------- constants
None == -1
Token == 1         \* the accessJwt the session endpoint hands out
PostType == "app.bsky.feed.post"
OtherType == "app.bsky.feed.repost"

Instants == 0..MaxT

VARIABLES
    limit, exclude_reposts, from_date, to_date,   \* arguments of get_my_posts
    jwt,                                          \* the token get_my_posts was called with
    filtered_posts,                               \* accepted posts
    cursor,                                       \* cursor of the next request
    feed_data,                                    \* decoded response being scanned
    idx,                                          \* position of the for loop in feed_data.feed
    current_batch_has_relevant_posts,
    pc,                                           \* "request" | "scan" | "endpage" | "done"
    outcome,                                      \* how the last step left: branch taken / exit cause
    served,                                       \* the responses the feed endpoint has returned
    sent,                                         \* the feed requests issued: [cursor, auth]
    returned,                                     \* the cursor of each response received
    posts, target_timezone,                       \* arguments of prepare_post_data_for_csv
    csv_data,                                     \* rows prepared so far
    i,                                            \* enumerate index of the row loop
    problematic_post_count,
    pcCsv,                                        \* "idle" | "start" | "loop" | "done"
    form,                                         \* request.form of the POST being handled
    pcIndex,                                      \* position of index(): "limit" | "timezone" |
                                                  \* "dates" | "login" | "call" | "fetch" | "rendered"
    access_jwt,                                   \* what bluesky_login returned
    logins,                                       \* calls of bluesky_login in this request
    flashed                                       \* the message index() ends on

fetchVars == <<limit, exclude_reposts, from_date, to_date, jwt, filtered_posts, cursor,
               feed_data, idx, current_batch_has_relevant_posts, pc, outcome, served,
               sent, returned>>

csvVars == <<posts, target_timezone, csv_data, i, problematic_post_count, pcCsv>>

indexVars == <<form, pcIndex, access_jwt, logins, flashed>>

vars == <<fetchVars, csvVars, indexVars>>

\* ------------------------------------------------------------ feed items
\* A post is [uri, record |-> [type, createdAt]]; a feed item is [post, reason].
\* NoPost is the value of feed_item.get("post") for an item without a post.
NoPost == [uri |-> 0]

\* The createdAt strings of the feed: one that does not parse, and one
\* spelling of each instant, the odd instants written at UTC offset 1.
CreatedAts == {<<>>} \cup {<<t + (t % 2), t % 2>> : t \in Instants}

\* The shapes a feed item can take: no post, a record of another type, or a
\* post record (own post or repost) with any createdAt.
ItemShapes ==
    {[post |-> NoPost, reason |-> FALSE],
     [post |-> [uri |-> 0, record |-> [type |-> OtherType, createdAt |-> <<>>]],
      reason |-> FALSE]}
    \cup {[post |-> [uri |-> 0, record |-> [type |-> PostType, createdAt |-> c]],
           reason |-> r] :
             c \in CreatedAts, r \in BOOLEAN}

\* parser.isoparse(s).astimezone(pytz.utc): the instant of an ISO string, or
\* None where isoparse raises or the conversion leaves the datetime range.
ParseUtc(createdAt) ==
    IF Len(createdAt) = 0 THEN None
    ELSE IF createdAt[1] - createdAt[2] < 0 THEN None
    ELSE createdAt[1] - createdAt[2]

RECURSIVE Concat(_)
Concat(pages) == IF pages = <<>> THEN <<>> ELSE Head(pages) \o Concat(Tail(pages))

\* The endpoint stamps each item it serves with a fresh uri.
Stamp(shapes, base) ==
    [k \in 1..Len(shapes) |->
        IF shapes[k].post = NoPost THEN shapes[k]
        ELSE [shapes[k] EXCEPT !.post.uri = base + k]]

PageShapes(room) == UNION {[1..n -> ItemShapes] : n \in 1..room}

NoResponse == [feed |-> <<>>, cursor |-> None]

\* The form of a request whose fields play no part.
NoForm == [limit |-> <<>>, timezone |-> <<>>, from_date |-> <<>>, to_date |-> <<>>]

\* ------------------------------------------------------------------ Init
Init ==
    /\ limit \in 1..MaxLimit
    /\ exclude_reposts \in BOOLEAN
    /\ from_date \in {None} \cup Instants
    /\ to_date \in {None} \cup Instants
    /\ (from_date # None /\ to_date # None) => from_date <= to_date
    /\ filtered_posts = <<>>
    /\ cursor = None
    /\ feed_data = NoResponse
    /\ idx = 0
    /\ current_batch_has_relevant_posts = FALSE
    /\ pc = "request"
    /\ outcome = "start"
    /\ served = <<>>
    /\ sent = <<>>
    /\ returned = <<>>
    /\ jwt = Token
    /\ posts = <<>>
    /\ target_timezone = 0
    /\ csv_data = <<>>
    /\ i = 0
    /\ problematic_post_count = 0
    /\ pcCsv = "idle"
    /\ form = NoForm
    /\ pcIndex = "fetch"
    /\ access_jwt = Token
    /\ logins = 1
    /\ flashed = "none"

filterVars == <<limit, exclude_reposts, from_date, to_date, jwt>>

wireVars == <<sent, returned>>

\* lines 87-105: the request get_my_posts sends; the cursor parameter is set
\* only when cursor is truthy, the Authorization header carries the token
FeedRequestWithoutCursor == [cursor |-> None, auth |-> jwt]

FeedRequest == [cursor |-> cursor, auth |-> jwt]

\* -------------------------------------------------------------- requests
\* the failed request issued again
RequestFailsRetry ==
    /\ pc = "request"
    /\ pc' = "request"
    /\ outcome' = "error"
    /\ sent' = Append(sent, FeedRequest)
    /\ UNCHANGED <<filterVars, filtered_posts, cursor, feed_data, idx,
                   current_batch_has_relevant_posts, served, returned, csvVars, indexVars>>

\* requests.get / raise_for_status / response.json raise: caught, loop left.
RequestFails ==
    /\ pc = "request"
    /\ pc' = "done"
    /\ outcome' = "error"
    /\ sent' = Append(sent, FeedRequest)
    /\ UNCHANGED <<filterVars, filtered_posts, cursor, feed_data, idx,
                   current_batch_has_relevant_posts, served, returned, csvVars, indexVars>>

\* the cursor of an empty response followed
RequestEmptyFollowsCursor ==
    /\ pc = "request"
    /\ Len(served) < MaxPages
    /\ \E c \in {None, Len(served) + 1} :
          /\ (Len(served) + 1 = MaxPages) => c = None
          /\ feed_data' = [feed |-> <<>>, cursor |-> c]
          /\ returned' = Append(returned, c)
          /\ cursor' = c
          /\ pc' = IF c = None THEN "done" ELSE "request"
    /\ served' = Append(served, <<>>)
    /\ sent' = Append(sent, FeedRequest)
    /\ outcome' = "empty"
    /\ UNCHANGED <<filterVars, filtered_posts, idx,
                   current_batch_has_relevant_posts, csvVars, indexVars>>

\* A response whose feed is missing or empty: break, cursor not read.
RequestEmpty ==
    /\ pc = "request"
    /\ Len(served) < MaxPages
    /\ \E c \in {None, Len(served) + 1} :
          /\ (Len(served) + 1 = MaxPages) => c = None
          /\ feed_data' = [feed |-> <<>>, cursor |-> c]
          /\ returned' = Append(returned, c)
    /\ served' = Append(served, <<>>)
    /\ sent' = Append(sent, FeedRequest)
    /\ pc' = "done"
    /\ outcome' = "empty"
    /\ UNCHANGED <<filterVars, filtered_posts, cursor, idx,
                   current_batch_has_relevant_posts, csvVars, indexVars>>

\* A response with items: the flag is reset and the for loop starts.
RequestPage ==
    /\ pc = "request"
    /\ Len(served) < MaxPages
    /\ \E shapes \in PageShapes(MaxItems - Len(Concat(served))), c \in {None, Len(served) + 1} :
          /\ (Len(served) + 1 = MaxPages) => c = None
          /\ feed_data' = [feed |-> Stamp(shapes, Len(Concat(served))), cursor |-> c]
          /\ served' = Append(served, Stamp(shapes, Len(Concat(served))))
          /\ returned' = Append(returned, c)
    /\ sent' = Append(sent, FeedRequest)
    /\ current_batch_has_relevant_posts' = FALSE
    /\ idx' = 1
    /\ pc' = "scan"
    /\ outcome' = "page"
    /\ UNCHANGED <<filterVars, filtered_posts, cursor, csvVars, indexVars>>

\* ------------------------------------------------------- the for loop body
Item == feed_data.feed[idx]

\* line 119: a repost while reposts are excluded
ExcludedRepostIgnoringFlag(item) == item.reason

ExcludedRepost(item) == exclude_reposts /\ item.reason

BelowFromInclusive(t) == from_date # None /\ t <= from_date

BelowFrom(t) == from_date # None /\ t < from_date

AboveTo(t) == to_date # None /\ t > to_date

\* lines 149 and 160: len(filtered_posts) >= limit
LimitReachedStrict(n) == n > limit

LimitReached(n) == n >= limit

\* continue, or the end of the for loop after the last item
Continue(why) ==
    /\ idx' = idx + 1
    /\ pc' = IF idx = Len(feed_data.feed) THEN "endpage" ELSE "scan"
    /\ outcome' = why

\* lines 117-118: the item carries no post
SkipNoPost ==
    /\ pc = "scan"
    /\ Item.post = NoPost
    /\ Continue("nopost")
    /\ UNCHANGED <<filterVars, filtered_posts, cursor, feed_data,
                   current_batch_has_relevant_posts, served, wireVars, csvVars, indexVars>>

\* lines 119-120: a repost, reposts excluded
SkipRepost ==
    /\ pc = "scan"
    /\ Item.post # NoPost
    /\ ExcludedRepost(Item)
    /\ Continue("repost")
    /\ UNCHANGED <<filterVars, filtered_posts, cursor, feed_data,
                   current_batch_has_relevant_posts, served, wireVars, csvVars, indexVars>>

\* lines 122-124: the record is not of the post type
SkipOtherType ==
    /\ pc = "scan"
    /\ Item.post # NoPost
    /\ ~ExcludedRepost(Item)
    /\ Item.post.record.type # PostType
    /\ Continue("type")
    /\ UNCHANGED <<filterVars, filtered_posts, cursor, feed_data,
                   current_batch_has_relevant_posts, served, wireVars, csvVars, indexVars>>

Scannable ==
    /\ pc = "scan"
    /\ Item.post # NoPost
    /\ ~ExcludedRepost(Item)
    /\ Item.post.record.type = PostType

\* the ValueError of line 130 left uncaught: the fetch is abandoned
SkipUnparseableAborts ==
    /\ Scannable
    /\ ParseUtc(Item.post.record.createdAt) = None
    /\ pc' = "done"
    /\ outcome' = "error"
    /\ UNCHANGED <<filterVars, filtered_posts, cursor, feed_data, idx,
                   current_batch_has_relevant_posts, served, wireVars, csvVars, indexVars>>

\* lines 129-130, 153-155: the timestamp does not parse
SkipUnparseable ==
    /\ Scannable
    /\ ParseUtc(Item.post.record.createdAt) = None
    /\ Continue("unparseable")
    /\ UNCHANGED <<filterVars, filtered_posts, cursor, feed_data,
                   current_batch_has_relevant_posts, served, wireVars, csvVars, indexVars>>

\* lines 134-140: older than from_date, the flag is cleared and the loop left
StopBelowFrom ==
    /\ Scannable
    /\ ParseUtc(Item.post.record.createdAt) # None
    /\ BelowFrom(ParseUtc(Item.post.record.createdAt))
    /\ current_batch_has_relevant_posts' = FALSE
    /\ pc' = "endpage"
    /\ outcome' = "older"
    /\ UNCHANGED <<filterVars, filtered_posts, cursor, feed_data, idx, served, wireVars, csvVars, indexVars>>

\* lines 142-143: newer than to_date
SkipAboveTo ==
    /\ Scannable
    /\ ParseUtc(Item.post.record.createdAt) # None
    /\ ~BelowFrom(ParseUtc(Item.post.record.createdAt))
    /\ AboveTo(ParseUtc(Item.post.record.createdAt))
    /\ Continue("newer")
    /\ UNCHANGED <<filterVars, filtered_posts, cursor, feed_data,
                   current_batch_has_relevant_posts, served, wireVars, csvVars, indexVars>>

\* line 146 with the post put in front
CollectInFront(result, post) == <<post>> \o result

\* line 146: filtered_posts.append(post)
Collect(result, post) == Append(result, post)

\* lines 146-151: the post is appended; at the limit the loop is left
Accept ==
    /\ Scannable
    /\ ParseUtc(Item.post.record.createdAt) # None
    /\ ~BelowFrom(ParseUtc(Item.post.record.createdAt))
    /\ ~AboveTo(ParseUtc(Item.post.record.createdAt))
    /\ filtered_posts' = Collect(filtered_posts, Item.post)
    /\ current_batch_has_relevant_posts' = TRUE
    /\ IF LimitReached(Len(filtered_posts) + 1)
          THEN /\ pc' = "endpage"
               /\ outcome' = "limit"
               /\ idx' = idx
          ELSE Continue("accept")
    /\ UNCHANGED <<filterVars, cursor, feed_data, served, wireVars, csvVars, indexVars>>

\* line 160 without its "not cursor" disjunct
StopAfterPageIgnoringCursor ==
    \/ LimitReached(Len(filtered_posts))
    \/ (from_date # None /\ ~current_batch_has_relevant_posts /\ Len(filtered_posts) > 0)

\* line 160: the condition that leaves the while loop after a page
StopAfterPage ==
    \/ LimitReached(Len(filtered_posts))
    \/ cursor' = None
    \/ (from_date # None /\ ~current_batch_has_relevant_posts /\ Len(filtered_posts) > 0)

\* lines 157-161
EndPage ==
    /\ pc = "endpage"
    /\ cursor' = feed_data.cursor
    /\ pc' = IF StopAfterPage THEN "done" ELSE "request"
    /\ UNCHANGED <<filterVars, filtered_posts, feed_data, idx,
                   current_batch_has_relevant_posts, outcome, served, wireVars, csvVars, indexVars>>

\* ------------------------------------------- prepare_post_data_for_csv
\* dict.get(key, default)
Get(d, key, default) == IF key \in DOMAIN d THEN d[key] ELSE default

max_problematic_posts_to_show == 5

TimeZones == {-1, 0, 1}

\* A post handed to the normaliser: [record |-> [text, createdAt], likeCount,
\* replyCount], every key optional. A createdAt <<w>> is a string without offset.
CsvCreatedAts ==
    {<<>>} \cup {<<w>> : w \in Instants} \cup {<<w, o>> : w \in Instants, o \in {0, 1}}

CsvRecords == {[text |-> t, createdAt |-> c] : t \in {"a", "b"}, c \in CsvCreatedAts}

CsvPosts ==
    {[record |-> r, likeCount |-> 1, replyCount |-> 2] : r \in CsvRecords}
    \cup {[record |-> r] : r \in CsvRecords}
    \cup {[record |-> [createdAt |-> c]] : c \in CsvCreatedAts}
    \cup {[record |-> [text |-> t]] : t \in {"a", "b"}}
    \cup {[likeCount |-> 1]}

\* lines 210-217: isoparse, UTC assumed for a string without offset, then
\* astimezone(target_timezone). None where isoparse raises or the shifted
\* datetime falls below datetime.min (instant 0).
Localize(createdAt, tz) ==
    IF Len(createdAt) = 0 THEN None
    ELSE LET utc == IF Len(createdAt) = 1 THEN createdAt[1]
                    ELSE createdAt[1] - createdAt[2]
         IN IF utc < 0 \/ utc + tz < 0 THEN None ELSE utc + tz

\* strftime('%Y-%m-%d') and strftime('%H:%M:%S'); <<>> is the empty string
FormatDate(local) == IF local = None THEN <<>> ELSE <<local \div TicksPerDay>>

FormatTime(local) == IF local = None THEN <<>> ELSE <<local % TicksPerDay>>

\* the counts read inside the try block: lost with the timestamp
CsvRowOfCountsInTry(post, tz) ==
    LET created_at_iso_utc == Get(Get(post, "record", <<>>), "createdAt", <<>>)
        local == Localize(created_at_iso_utc, tz)
    IN [Post |-> Get(Get(post, "record", <<>>), "text", ""),
        Date |-> FormatDate(local),
        Time |-> FormatTime(local),
        likes |-> IF local = None THEN 0 ELSE Get(post, "likeCount", 0),
        comments |-> IF local = None THEN 0 ELSE Get(post, "replyCount", 0)]

\* lines 202-241: the row of one post
CsvRowOf(post, tz) ==
    LET created_at_iso_utc == Get(Get(post, "record", <<>>), "createdAt", <<>>)
        local == Localize(created_at_iso_utc, tz)
    IN [Post |-> Get(Get(post, "record", <<>>), "text", ""),
        Date |-> FormatDate(local),
        Time |-> FormatTime(local),
        likes |-> Get(post, "likeCount", 0),
        comments |-> Get(post, "replyCount", 0)]

\* lines 235-241: the row is appended whatever became of the timestamp
EmitUnlessMalformed(rows, post, tz) ==
    IF CsvRowOf(post, tz).Date = <<>> THEN rows ELSE Append(rows, CsvRowOf(post, tz))

Emit(rows, post, tz) == Append(rows, CsvRowOf(post, tz))

InitCsv ==
    /\ posts \in UNION {[1..n -> CsvPosts] : n \in 0..MaxPosts}
    /\ target_timezone \in TimeZones
    /\ csv_data = <<>>
    /\ i = 0
    /\ problematic_post_count = 0
    /\ pcCsv = "start"
    /\ form = NoForm
    /\ pcIndex = "rendered"
    /\ access_jwt = Token
    /\ logins = 1
    /\ flashed = "none"
    /\ limit = 1
    /\ exclude_reposts = TRUE
    /\ from_date = None
    /\ to_date = None
    /\ filtered_posts = <<>>
    /\ cursor = None
    /\ feed_data = NoResponse
    /\ idx = 0
    /\ current_batch_has_relevant_posts = FALSE
    /\ pc = "idle"
    /\ outcome = "start"
    /\ served = <<>>
    /\ sent = <<>>
    /\ returned = <<>>
    /\ jwt = Token

\* lines 190-192: nothing to prepare
CsvEmpty ==
    /\ pcCsv = "start"
    /\ posts = <<>>
    /\ pcCsv' = "done"
    /\ UNCHANGED <<indexVars, fetchVars, posts, target_timezone, csv_data, i, problematic_post_count>>

\* lines 194-199
CsvBegin ==
    /\ pcCsv = "start"
    /\ posts # <<>>
    /\ csv_data' = <<>>
    /\ problematic_post_count' = 0
    /\ i' = 0
    /\ pcCsv' = "loop"
    /\ UNCHANGED <<indexVars, fetchVars, posts, target_timezone>>

\* lines 201-241: one iteration of the row loop
CsvRow ==
    /\ pcCsv = "loop"
    /\ i < Len(posts)
    /\ csv_data' = Emit(csv_data, posts[i + 1], target_timezone)
    /\ problematic_post_count' =
          IF /\ CsvRowOf(posts[i + 1], target_timezone).Date = <<>>
             /\ problematic_post_count <= max_problematic_posts_to_show
          THEN problematic_post_count + 1
          ELSE problematic_post_count
    /\ i' = i + 1
    /\ UNCHANGED <<indexVars, fetchVars, posts, target_timezone, pcCsv>>

\* lines 243-244
CsvReturn ==
    /\ pcCsv = "loop"
    /\ i = Len(posts)
    /\ pcCsv' = "done"
    /\ UNCHANGED <<indexVars, fetchVars, posts, target_timezone, csv_data, i, problematic_post_count>>

NextCsv == CsvEmpty \/ CsvBegin \/ CsvRow \/ CsvReturn

SpecCsv == InitCsv /\ [][NextCsv]_vars

\* ------------------------------------------------------ index() (app.py)
\* Form fields are tuples: <<>> is a string that is empty or not a number,
\* or a zone name pytz does not know; <<n>> is the number, zone or day
\* written out; <<None>> is a date string strptime rejects.
LimitCeiling == 500

LimitInputs == {<<>>} \cup {<<n>> : n \in {0, LimitCeiling + 1} \cup (1..MaxLimit)}

\* A zone pytz knows is a fixed UTC offset or SummerZone, the zone whose
\* offset is 0 during day 0 and 1 from day 1 on (a daylight-saving change).
SummerZone == 2

FormZones == {0, 1, SummerZone}

ZoneInputs == {<<>>} \cup {<<z>> : z \in FormZones}

\* the UTC offset tz.localize gives a wall clock
UtcOffsetAt(tz, wall) ==
    IF tz = SummerZone THEN (IF wall < TicksPerDay THEN 0 ELSE 1) ELSE tz

Days == 0..(MaxT \div TicksPerDay)

DateInputs == {<<>>, <<None>>} \cup {<<d>> : d \in Days}

Forms == [limit : LimitInputs, timezone : ZoneInputs,
          from_date : DateInputs, to_date : DateInputs]

\* app.py 250-251: int() succeeds and 1 <= limit <= 500
LimitAccepted(raw) == Len(raw) = 1 /\ 1 <= raw[1] /\ raw[1] <= LimitCeiling

\* app.py 277-279, 284-286: strptime, localize in the zone, astimezone(utc);
\* None where strptime raises or the datetime leaves the datetime range
DayStartUtc(raw, tz) ==
    IF raw[1] = None THEN None
    ELSE IF raw[1] * TicksPerDay - UtcOffsetAt(tz, raw[1] * TicksPerDay) < 0 THEN None
    ELSE raw[1] * TicksPerDay - UtcOffsetAt(tz, raw[1] * TicksPerDay)

\* app.py 280: replace(hour=0, minute=0, second=0, microsecond=0)
StartOfUtcDay(t) == (t \div TicksPerDay) * TicksPerDay

\* app.py 287: replace(hour=23, minute=59, second=59, microsecond=999999)
EndOfUtcDay(t) == (t \div TicksPerDay) * TicksPerDay + TicksPerDay - 1

start_datetime_utc(f, tz) ==
    IF f.from_date = <<>> THEN None ELSE StartOfUtcDay(DayStartUtc(f.from_date, tz))

end_datetime_utc(f, tz) ==
    IF f.to_date = <<>> THEN None ELSE EndOfUtcDay(DayStartUtc(f.to_date, tz))

\* app.py 275-299: a date does not parse or convert, or from is after to
DatesRejected(f, tz) ==
    \/ f.from_date # <<>> /\ DayStartUtc(f.from_date, tz) = None
    \/ f.to_date # <<>> /\ DayStartUtc(f.to_date, tz) = None
    \/ /\ f.from_date # <<>> /\ f.to_date # <<>>
       /\ start_datetime_utc(f, tz) > end_datetime_utc(f, tz)

\* what the session endpoint can answer to createSession
LoginResponses == {"transport", "status", "notoken", "token"}

\* bluesky_core.py 46-53: the accessJwt of a 2xx response, else None
bluesky_login(response) == IF response = "token" THEN Token ELSE None

\* app.py 304 with the test dropped
LoginFailedNever(token) == FALSE

\* app.py 304: if not access_jwt
LoginFailed(token) == token = None

InitIndex ==
    /\ form \in Forms
    /\ exclude_reposts \in BOOLEAN
    /\ pcIndex = "limit"
    /\ access_jwt = None
    /\ logins = 0
    /\ flashed = "none"
    /\ limit = None
    /\ from_date = None
    /\ to_date = None
    /\ jwt = None
    /\ filtered_posts = <<>>
    /\ cursor = None
    /\ feed_data = NoResponse
    /\ idx = 0
    /\ current_batch_has_relevant_posts = FALSE
    /\ pc = "idle"
    /\ outcome = "start"
    /\ served = <<>>
    /\ sent = <<>>
    /\ returned = <<>>
    /\ posts = <<>>
    /\ target_timezone = 0
    /\ csv_data = <<>>
    /\ i = 0
    /\ problematic_post_count = 0
    /\ pcCsv = "idle"

fetchState == <<filtered_posts, cursor, feed_data, idx, current_batch_has_relevant_posts,
                pc, outcome, served, sent, returned>>

\* app.py 248-256
IndexLimit ==
    /\ pcIndex = "limit"
    /\ IF LimitAccepted(form.limit)
          THEN /\ limit' = form.limit[1]
               /\ pcIndex' = "timezone"
               /\ flashed' = flashed
          ELSE /\ limit' = limit
               /\ pcIndex' = "rendered"
               /\ flashed' = "limit"
    /\ UNCHANGED <<exclude_reposts, from_date, to_date, jwt, fetchState, csvVars,
                   form, access_jwt, logins>>

\* app.py 258-267
IndexTimezone ==
    /\ pcIndex = "timezone"
    /\ IF form.timezone # <<>>
          THEN /\ target_timezone' = form.timezone[1]
               /\ pcIndex' = "dates"
               /\ flashed' = flashed
          ELSE /\ target_timezone' = target_timezone
               /\ pcIndex' = "rendered"
               /\ flashed' = "timezone"
    /\ UNCHANGED <<filterVars, fetchState, posts, csv_data, i, problematic_post_count,
                   pcCsv, form, access_jwt, logins>>

\* app.py 269-299
IndexDates ==
    /\ pcIndex = "dates"
    /\ IF DatesRejected(form, target_timezone)
          THEN /\ UNCHANGED <<from_date, to_date>>
               /\ pcIndex' = "rendered"
               /\ flashed' = "dates"
          ELSE /\ from_date' = start_datetime_utc(form, target_timezone)
               /\ to_date' = end_datetime_utc(form, target_timezone)
               /\ pcIndex' = "login"
               /\ flashed' = flashed
    /\ UNCHANGED <<limit, exclude_reposts, jwt, fetchState, csvVars,
                   form, access_jwt, logins>>

\* app.py 301-306
IndexLogin ==
    /\ pcIndex = "login"
    /\ logins' = logins + 1
    /\ \E response \in LoginResponses :
          /\ access_jwt' = bluesky_login(response)
          /\ IF LoginFailed(bluesky_login(response))
                THEN pcIndex' = "rendered" /\ flashed' = "login"
                ELSE pcIndex' = "call" /\ flashed' = flashed
    /\ UNCHANGED <<filterVars, fetchState, csvVars, form>>

\* app.py 308-309: get_my_posts is entered with the token and the filter
IndexFetch ==
    /\ pcIndex = "call"
    /\ jwt' = access_jwt
    /\ pc' = "request"
    /\ pcIndex' = "fetch"
    /\ UNCHANGED <<limit, exclude_reposts, from_date, to_date, filtered_posts, cursor,
                   feed_data, idx, current_batch_has_relevant_posts, outcome, served,
                   sent, returned, csvVars, form, access_jwt, logins, flashed>>

\* app.py 311-315: get_my_posts has returned
IndexFetched ==
    /\ pcIndex = "fetch"
    /\ pc = "done"
    /\ pcIndex' = "rendered"
    /\ flashed' = IF filtered_posts = <<>> THEN "noposts" ELSE "fetched"
    /\ UNCHANGED <<fetchVars, csvVars, form, access_jwt, logins>>

Next ==
    \/ RequestFails \/ RequestEmpty \/ RequestPage
    \/ SkipNoPost \/ SkipRepost \/ SkipOtherType \/ SkipUnparseable
    \/ StopBelowFrom \/ SkipAboveTo \/ Accept
    \/ EndPage

Spec == Init /\ [][Next]_vars

NextIndex ==
    \/ IndexLimit \/ IndexTimezone \/ IndexDates \/ IndexLogin \/ IndexFetch \/ IndexFetched
    \/ RequestFails \/ RequestEmpty \/ RequestPage
    \/ SkipNoPost \/ SkipRepost \/ SkipOtherType \/ SkipUnparseable
    \/ StopBelowFrom \/ SkipAboveTo \/ Accept
    \/ EndPage

SpecIndex == InitIndex /\ [][NextIndex]_vars
\* ================================================================ claims
Instant(post) == ParseUtc(post.record.createdAt)

InWindow(t) ==
    /\ t # None
    /\ from_date # None => from_date <= t
    /\ to_date # None => t <= to_date

\* C1 (as claimed): once an item older than from_date has been scanned, the
\* result gains no further post and the fetch ends without another request,
\* whatever the number of posts accepted so far.
C1_StopsBelowFrom ==
    [][outcome = "older" => (pc' = "done" /\ filtered_posts' = filtered_posts)]_vars

\* C2 (as claimed): after a page from which nothing was accepted and in which
\* nothing older than from_date was scanned, the next page is requested
\* whenever a cursor came back and the limit is not reached.
C2_EmptyMatchPageContinues ==
    [][(/\ pc = "endpage"
        /\ ~current_batch_has_relevant_posts
        /\ outcome # "older"
        /\ feed_data.cursor # None
        /\ Len(filtered_posts) < limit) => pc' = "request"]_vars

AllAboveTo(feed) ==
    \A k \in 1..Len(feed) :
        /\ feed[k].post # NoPost
        /\ ~ExcludedRepost(feed[k])
        /\ feed[k].post.record.type = PostType
        /\ Instant(feed[k].post) # None
        /\ AboveTo(Instant(feed[k].post))

\* C3 (as claimed): an item newer than to_date is skipped and the scan goes on
\* to the next item of the page; a page whose items are all newer than to_date
\* is followed by the next request whenever a cursor came back, from_date set
\* or not.
C3_ToDateNeverStops ==
    [][/\ (/\ Scannable
           /\ Instant(Item.post) # None
           /\ ~BelowFrom(Instant(Item.post))
           /\ AboveTo(Instant(Item.post)))
          => /\ filtered_posts' = filtered_posts
             /\ idx' = idx + 1
             /\ idx < Len(feed_data.feed) => pc' = "scan"
       /\ (/\ pc = "endpage"
           /\ AllAboveTo(feed_data.feed)
           /\ feed_data.cursor # None) => pc' = "request"]_vars

\* C4: every post of the result lies in the window from_date <= t <= to_date,
\* both ends included, and a scanned post whose instant equals from_date or
\* to_date is appended to the result.
C4_InclusiveBounds ==
    [][/\ \A k \in 1..Len(filtered_posts') : InWindow(Instant(filtered_posts'[k]))
       /\ (/\ Scannable
           /\ Instant(Item.post) # None
           /\ Instant(Item.post) \in {from_date, to_date})
          => filtered_posts' = Append(filtered_posts, Item.post)]_vars

\* C4 witness: the result holds a post exactly at from_date and one exactly
\* at to_date, the two bounds being different.
C4_Witness ==
    /\ from_date # None /\ to_date # None /\ from_date # to_date
    /\ \E k \in 1..Len(filtered_posts) : Instant(filtered_posts[k]) = from_date
    /\ \E k \in 1..Len(filtered_posts) : Instant(filtered_posts[k]) = to_date

\* C5: the result never holds more than limit posts, and from the moment it
\* holds limit posts the scan of the page is over and no request follows.
C5_LimitRespected ==
    /\ Len(filtered_posts) <= limit
    /\ Len(filtered_posts) = limit => pc \in {"endpage", "done"}

\* C5 witness: the limit was reached with an item of the page still unscanned
\* and a cursor in hand, and the fetch is over.
C5_Witness ==
    /\ pc = "done"
    /\ Len(filtered_posts) = limit
    /\ idx < Len(feed_data.feed)
    /\ cursor # None
Eligible(item) ==
    /\ item.post # NoPost
    /\ item.post.record.type = PostType
    /\ Instant(item.post) # None
    /\ exclude_reposts => ~item.reason

EligiblePosts(items) ==
    [k \in 1..Len(SelectSeq(items, Eligible)) |-> SelectSeq(items, Eligible)[k].post]

FirstN(s, n) == SubSeq(s, 1, IF Len(s) < n THEN Len(s) ELSE n)

\* C6: without date bounds and without a failed request, the fetch returns
\* the first min(limit, number of eligible items) eligible posts of the pages
\* served, in feed order; reposts are eligible unless exclude_reposts is set.
C6_UnboundedFetchIsPrefix ==
    (pc = "done" /\ outcome # "error" /\ from_date = None /\ to_date = None)
        => filtered_posts = FirstN(EligiblePosts(Concat(served)), limit)

\* C6 witness: two pages served, reposts not excluded, a repost returned and
\* the other item of the feed ineligible.
C6_Witness ==
    /\ pc = "done" /\ outcome # "error" /\ from_date = None /\ to_date = None
    /\ ~exclude_reposts
    /\ Len(served) = 2 /\ Len(Concat(served)) = 2
    /\ Len(filtered_posts) = 1
    /\ \E k \in 1..2 : Concat(served)[k].reason /\ Concat(served)[k].post = filtered_posts[1]

\* C7: a request that fails ends the fetch at once: no further step follows
\* the return, no request is issued again, and the result is the one held
\* before the failure (empty when the first request fails).
C7_FailureReturnsPartial ==
    [][/\ pc # "done"
       /\ (pc = "request" /\ served' = served)
             => (pc' = "done" /\ filtered_posts' = filtered_posts)
       /\ (pc' = "done" /\ served' = <<>>) => filtered_posts' = <<>>]_vars

\* C7 witness: a request after the first failed and posts are returned.
C7_Witness ==
    /\ pc = "done" /\ outcome = "error"
    /\ served # <<>>
    /\ filtered_posts # <<>>

\* C8: a response without items ends the fetch at once, cursor or not, and
\* leaves the result as it was (empty on the first page).
C8_EmptyPageTerminates ==
    [][(served' # served /\ feed_data'.feed = <<>>)
          => /\ pc' = "done"
             /\ filtered_posts' = filtered_posts
             /\ Len(served') = 1 => filtered_posts' = <<>>]_vars

\* C8 witness: an empty response carrying a cursor arrived after a page that
\* contributed posts, and the fetch is over.
C8_Witness ==
    /\ pc = "done"
    /\ Len(served) = 2 /\ served[2] = <<>>
    /\ feed_data.cursor # None
    /\ filtered_posts # <<>>

TextOf(post) == Get(Get(post, "record", <<>>), "text", "")

Malformed(post, tz) ==
    Localize(Get(Get(post, "record", <<>>), "createdAt", <<>>), tz) = None

\* C9: prepare_post_data_for_csv emits one row per post, in order: the k-th
\* row carries the text of the k-th post, and on return there are as many
\* rows as posts, malformed timestamps or not.
C9_LengthAndOrderPreserved ==
    /\ Len(csv_data) <= Len(posts)
    /\ \A k \in 1..Len(csv_data) : csv_data[k].Post = TextOf(posts[k])
    /\ pcCsv = "done" => Len(csv_data) = Len(posts)

\* C9 witness: a batch of two posts with different texts, the first with a
\* malformed timestamp, the second well formed, has been prepared.
C9_Witness ==
    /\ pcCsv = "done"
    /\ Len(posts) = 2
    /\ Malformed(posts[1], target_timezone)
    /\ ~Malformed(posts[2], target_timezone)
    /\ TextOf(posts[1]) # TextOf(posts[2])

\* C10: the row of a post whose createdAt cannot be parsed or converted has
\* Date and Time present and empty and keeps the post's text, likeCount and
\* replyCount (0 when absent); the rows of the other posts keep their date,
\* time, text and counts.
C10_MalformedRowIsolated ==
    \A k \in 1..Len(csv_data) :
        /\ DOMAIN csv_data[k] = {"Post", "Date", "Time", "likes", "comments"}
        /\ csv_data[k].Post = TextOf(posts[k])
        /\ csv_data[k].likes = Get(posts[k], "likeCount", 0)
        /\ csv_data[k].comments = Get(posts[k], "replyCount", 0)
        /\ Malformed(posts[k], target_timezone)
              => (csv_data[k].Date = <<>> /\ csv_data[k].Time = <<>>)
        /\ ~Malformed(posts[k], target_timezone)
              => (csv_data[k].Date # <<>> /\ csv_data[k].Time # <<>>)

\* C10 witness: a malformed post with counts was prepared ahead of a well
\* formed one.
C10_Witness ==
    /\ pcCsv = "done"
    /\ Len(posts) = 2
    /\ Malformed(posts[1], target_timezone)
    /\ Get(posts[1], "likeCount", 0) = 1
    /\ ~Malformed(posts[2], target_timezone)
    /\ csv_data[2].Date # <<>>
\* C11: bluesky_login is called at most once per request and exactly once in
\* a request that passed validation; it yields the token or None; after a
\* failed login get_my_posts is never entered, and every feed request carries
\* the token the one successful login returned.
C11_LoginGuardsFetch ==
    /\ logins <= 1
    /\ (pcIndex \in {"call", "fetch"} \/ flashed \in {"login", "noposts", "fetched"})
          => logins = 1
    /\ access_jwt \in {None, Token}
    /\ flashed = "login" => (access_jwt = None /\ pc = "idle" /\ sent = <<>>)
    /\ pc # "idle" => (logins = 1 /\ access_jwt = Token /\ jwt = access_jwt)
    /\ \A k \in 1..Len(sent) : sent[k].auth = Token /\ access_jwt = Token

\* C11 witness: the one login of the request failed and the handler is over.
C11_Witness ==
    /\ pcIndex = "rendered" /\ flashed = "login"
    /\ logins = 1 /\ access_jwt = None

BadLimit(f) == f.limit = <<>> \/ f.limit[1] < 1 \/ f.limit[1] > LimitCeiling

BadZone(f) == f.timezone = <<>>

BadDate(f) == f.from_date = <<None>> \/ f.to_date = <<None>>

FromAfterTo(f) ==
    /\ f.from_date \notin {<<>>, <<None>>}
    /\ f.to_date \notin {<<>>, <<None>>}
    /\ f.from_date[1] > f.to_date[1]

\* C12 (as claimed): a request with an invalid limit, an unknown timezone, an
\* unparseable date or a from date after the to date makes no network call:
\* bluesky_login is not called and get_my_posts is not entered.
C12_InvalidInputNoNetwork ==
    (BadLimit(form) \/ BadZone(form) \/ BadDate(form) \/ FromAfterTo(form))
        => (logins = 0 /\ pc = "idle" /\ sent = <<>>)
\* C13: an item whose createdAt does not parse is passed over: the result,
\* the page and its cursor stay as they are, the loop moves to the next item
\* of the page (or to the end of the page after the last one), and the step
\* neither ends the fetch nor records an error; an item after it in the same
\* page that has been accepted stays in the result.
C13_UnparseableSkipped ==
    [][(/\ pc = "scan"
        /\ Item.post # NoPost
        /\ ~ExcludedRepost(Item)
        /\ Item.post.record.type = PostType
        /\ Instant(Item.post) = None)
          => /\ filtered_posts' = filtered_posts
             /\ feed_data' = feed_data
             /\ current_batch_has_relevant_posts' = current_batch_has_relevant_posts
             /\ idx' = idx + 1
             /\ pc' = (IF idx < Len(feed_data.feed) THEN "scan" ELSE "endpage")
             /\ outcome' # "error"]_vars

\* C13 witness: a post accepted from a page whose preceding item carries an
\* unparseable createdAt.
C13_Witness ==
    \E p \in 1..Len(served) :
        /\ Len(served[p]) = 2
        /\ served[p][1].post # NoPost
        /\ served[p][1].post.record.type = PostType
        /\ ~ExcludedRepost(served[p][1])
        /\ Instant(served[p][1].post) = None
        /\ served[p][2].post # NoPost
        /\ \E k \in 1..Len(filtered_posts) : filtered_posts[k] = served[p][2].post

\* the cursor-less end of the feed, a failed request, an empty page, an item
\* older than from_date, the limit
StopCause ==
    \/ outcome \in {"error", "empty", "older"}
    \/ LimitReached(Len(filtered_posts))
    \/ (returned # <<>> /\ returned[Len(returned)] = None)

\* C14 (as claimed): the first request carries no cursor, each later request
\* the cursor of the response before it, none follows a response without
\* cursor; and after a page the next one is requested exactly when no stop
\* cause (limit, no cursor, empty page, item older than from_date, request
\* error) occurred.
C14_CursorChainAndStopCauses ==
    /\ \A k \in 1..Len(sent) :
          sent[k].cursor = (IF k = 1 THEN None ELSE returned[k - 1])
    /\ \A k \in 1..Len(returned) : k < Len(sent) => returned[k] # None
    /\ (pc = "request" /\ sent # <<>>) => ~StopCause
    /\ pc = "done" => StopCause

Rank ==
    (MaxItems + 3) * (MaxPages - Len(served))
      + (CASE pc = "request" -> 1
           [] pc = "endpage" -> 2
           [] pc = "scan" -> 3 + Len(feed_data.feed) - idx
           [] OTHER -> 0)

\* C15: on a feed of at most MaxPages pages every step of get_my_posts
\* lowers a natural-number rank and a step is possible until the function
\* has returned, so it returns; no two requests carry the same cursor (no
\* page is requested twice). Neither depends on the result being non-empty.
C15_Terminates ==
    /\ [](Rank >= 0)
    /\ [](pc # "done" => ENABLED Next)
    /\ [](\A j, k \in 1..Len(sent) : j # k => sent[j].cursor # sent[k].cursor)
    /\ [][Rank' < Rank]_vars

\* C15 witness: the fetch returned after every page of the feed was received
\* without one post accepted.
C15_Witness ==
    /\ pc = "done"
    /\ Len(served) = MaxPages
    /\ Len(sent) = MaxPages
    /\ filtered_posts = <<>>

\* C16: the result is a subsequence of the concatenated pages in their order
\* (its posts are posts of the pages, at strictly increasing positions, so
\* none occurs twice), and a step leaves it as it is or appends one post.
C16_ResultIsSubsequence ==
    /\ [](\A k \in 1..Len(filtered_posts) :
             /\ filtered_posts[k].uri \in 1..Len(Concat(served))
             /\ Concat(served)[filtered_posts[k].uri].post = filtered_posts[k]
             /\ k > 1 => filtered_posts[k - 1].uri < filtered_posts[k].uri)
    /\ [][\/ filtered_posts' = filtered_posts
          \/ /\ Len(filtered_posts') = Len(filtered_posts) + 1
             /\ SubSeq(filtered_posts', 1, Len(filtered_posts)) = filtered_posts]_vars

\* C16 witness: two posts accepted from two different pages.
C16_Witness ==
    /\ Len(filtered_posts) = 2
    /\ Len(served) = 2
    /\ filtered_posts[1] = served[1][1].post
    /\ filtered_posts[2] = served[2][1].post
====
